---- MODULE Spec2Model ----
(***************************************************************************)
(* Model of the areo event loop (src/areo): the reactor of base_loop.py,   *)
(* the handles of handlers.py, the Future/Task state machine of            *)
(* futures.py and the combinators wait and wait_for of utils.py.           *)
(*                                                                         *)
(* User code (the top level before run_forever, the body of a user         *)
(* callback) is an arbitrary sequence of calls of the public API; a        *)
(* coroutine yields, returns or raises; a second thread calls stop and     *)
(* call_soon_threadsafe. The reactor's own methods are translated          *)
(* statement by statement.                                                 *)
(***************************************************************************)
EXTENDS Integers, Sequences, FiniteSets, TLC

\* ---------------------------------------------------------------- bounds
MaxHandles == 3     \* handles ever created when no Future is in play
MaxFutHandles == 4  \* handles ever created once Futures are in play
MaxTime    == 2     \* largest reading of the monotonic clock
MaxDelay   == 1     \* largest delay handed to call_later
WakeCap    == 1     \* bytes the wake channel buffers before send() fails
MaxFut     == 1     \* plain Futures ever created
MaxTasks   == 1     \* Tasks ever created
MaxCb      == 2     \* continuations registered on one future
MaxCombHandles == 5 \* handles ever created once wait or wait_for is in play

\* ------------------------------------------------------- program constants
MAX_SELECT_TIMEOUT == 18000   \* _MAX_SELECT_TIMEOUT = 5 * 3600
NoTimeout == -1               \* timeout = None
NoValue   == 0                \* None as a result
NoError   == "None"           \* None as an exception

Values == {1}             \* results handed to set_result
TrueV  == 1               \* True, handed to waiter.set_result
FalseV == 2               \* False, handed to waiter.set_result (a token)
Errors == {"E"}           \* errors handed to set_exception or raised
Signals == {"SystemExit", "KeyboardInterrupt"}
CloseError == "loop must not be running to close"
Msgs   == {"None"}        \* cancel(msg): called as cancel()
CbTags == {1, 2}          \* the user functions handed to add_done_callback

VARIABLES
    hs,              \* every Handle / TimedHandle object, by identity
    handlers,        \* BaseLoop._handlers (deque of handles)
    timed_handlers,  \* BaseLoop._timed_handlers (heapq array)
    stopping,        \* BaseLoop._stopping
    closed,          \* BaseLoop._closed
    wake,            \* unread bytes in the self socket pair
    now,             \* the last reading of time.monotonic()
    pc,              \* where the owning thread is
    timeout,         \* local of _run_once
    selStart,        \* clock reading when select() was entered
    todo,            \* iterations left of `for _ in range(len(self._handlers))`
    cur,             \* the callback being executed (0: none)
    running_loop,    \* _running_loop.loop is this loop
    current_task,    \* BaseLoop._current_task (0: None)
    futs,            \* every Future / Task object, by identity
    coro,            \* the coroutine of each Task
    ran,             \* history: the handles whose callback was invoked, in order
    fresh,           \* history: handles enqueued by callbacks since the last poll
    coheap,          \* history: the timer heap when each handle was created
    lastexc,         \* the exception most recently raised into the reactor
    thr              \* where the second thread is, and the handle it queued

vars == <<hs, handlers, timed_handlers, stopping, closed, wake, now, pc,
          timeout, selStart, todo, cur, running_loop, current_task, futs,
          coro, ran, fresh, coheap, lastexc, thr>>

loopvars == <<stopping, closed, pc, timeout, selStart, todo, cur,
              running_loop, current_task, lastexc, thr>>

\* BaseLoop.time: a reading of the monotonic clock, never below the last one
Readings == now..MaxTime

Min(a, b) == IF a < b THEN a ELSE b
Max(a, b) == IF a > b THEN a ELSE b
Range(s) == {s[i] : i \in DOMAIN s}

\* ---------------------------------------------------------------- handles
Handle(fn, arg, src) ==
    [fn |-> fn, arg |-> arg, src |-> src, timed |-> FALSE, when |-> 0,
     cancelled |-> FALSE]

TimedHandle(when, fn, arg, src) ==
    [fn |-> fn, arg |-> arg, src |-> src, timed |-> TRUE, when |-> when,
     cancelled |-> FALSE]

\* TimedHandle.__lt__
Lt(H, a, b) == H[a].when < H[b].when

\* heapq._siftdown, positions 0-based as in the library
RECURSIVE siftdown(_, _, _, _, _)
siftdown(H, heap, startpos, pos, newitem) ==
    IF pos > startpos
    THEN LET parentpos == (pos - 1) \div 2
             parent == heap[parentpos + 1]
         IN IF Lt(H, newitem, parent)
            THEN siftdown(H, [heap EXCEPT ![pos + 1] = parent], startpos,
                          parentpos, newitem)
            ELSE [heap EXCEPT ![pos + 1] = newitem]
    ELSE [heap EXCEPT ![pos + 1] = newitem]

\* heapq._siftup: bubble the smaller child up until a leaf, then sift down
RECURSIVE siftup(_, _, _, _, _)
siftup(H, heap, startpos, pos, newitem) ==
    LET endpos == Len(heap)
        childpos == 2 * pos + 1
    IN IF childpos < endpos
       THEN LET rightpos == childpos + 1
                c == IF rightpos < endpos
                        /\ ~Lt(H, heap[childpos + 1], heap[rightpos + 1])
                     THEN rightpos ELSE childpos
            IN siftup(H, [heap EXCEPT ![pos + 1] = heap[c + 1]], startpos, c,
                      newitem)
       ELSE siftdown(H, [heap EXCEPT ![pos + 1] = newitem], startpos, pos,
                     newitem)

heappush_unordered(H, heap, item) == Append(heap, item)

heappush(H, heap, item) ==
    siftdown(H, Append(heap, item), 0, Len(heap), item)

\* heapq.heappop: the heap that is left (the item returned is heap[1])
heappop(H, heap) ==
    LET lastelt == heap[Len(heap)]
        rest == SubSeq(heap, 1, Len(heap) - 1)
    IN IF rest = <<>> THEN rest
       ELSE siftup(H, [rest EXCEPT ![1] = lastelt], 0, 0, lastelt)

append_left(q, h) == <<h>> \o q

\* deque.append
append_right(q, h) == Append(q, h)

\* ------------------------------------------------ the state the API mutates
St == [hs |-> hs, handlers |-> handlers, timed_handlers |-> timed_handlers,
       wake |-> wake, futs |-> futs, fresh |-> fresh, coheap |-> coheap,
       raised |-> FALSE]

\* room for n more handles
Room(n) ==
    Len(hs) + n <=
        (IF futs = <<>> THEN MaxHandles
         ELSE IF \E t \in DOMAIN coro : "kind" \in DOMAIN coro[t]
              THEN MaxCombHandles
              ELSE MaxFutHandles)

Commit(S) ==
    /\ hs' = S.hs
    /\ handlers' = S.handlers
    /\ timed_handlers' = S.timed_handlers
    /\ wake' = S.wake
    /\ futs' = S.futs
    /\ fresh' = S.fresh
    /\ coheap' = S.coheap

InCallback == pc \in {"exec", "cb", "coro"}
\* user code that calls the API: the main program before run_forever, or a
\* callback the reactor runs; a coroutine only yields, returns or raises
InUser == pc \in {"idle", "cb"}
\* the main program, before run_forever
InMain == pc = "idle"

\* history kept for every new handle; a handle put on the ready queue while
\* a callback runs is fresh until the next poll
Born(S, id, queued) ==
    [S EXCEPT !.fresh = IF queued /\ InCallback THEN @ \cup {id} ELSE @,
              !.coheap = Append(@, Range(S.timed_handlers))]

\* BaseLoop._add_handle
add_handle(S, handle) ==
    LET id == Len(S.hs) + 1
        S1 == Born([S EXCEPT !.hs = Append(@, handle)], id, ~handle.timed)
    IN IF handle.timed
       THEN [S1 EXCEPT !.timed_handlers = heappush(S1.hs, @, id)]
       ELSE [S1 EXCEPT !.handlers = append_right(@, id)]

\* BaseLoop.call_soon
call_soon(S, fn, arg, src) == add_handle(S, Handle(fn, arg, src))

\* BaseLoop.call_at
call_at(S, when, fn, arg, src) == add_handle(S, TimedHandle(when, fn, arg, src))

\* BaseLoop.call_later, t the value self.time() returns
call_later(S, t, delay, fn, arg, src) == call_at(S, t + delay, fn, arg, src)

write_self_lost(S) == S

\* BaseLoop._write_self: send one byte, a full buffer is ignored
write_self(S) == [S EXCEPT !.wake = Min(@ + 1, WakeCap)]

\* ------------------------------------------------------------------- Init
\* ---------------------------------------------------------------- futures
\* Future.__init__
Future(task, msg) ==
    [task |-> task, state |-> "PENDING", result |-> NoValue,
     exception |-> NoError, callbacks |-> <<>>, cancel_msg |-> msg]

Raise(S) == [S EXCEPT !.raised = TRUE]

RECURSIVE call_soon_each(_, _, _)
call_soon_each(S, cbs, f) ==
    IF cbs = <<>> THEN S
    ELSE call_soon_each(call_soon(S, Head(cbs).fn, Head(cbs).arg, f),
                        Tail(cbs), f)

schedule_callbacks_keep(S, f) ==
    LET callbacks == S.futs[f].callbacks
    IN IF callbacks = <<>> THEN S
       ELSE write_self(call_soon_each(S, callbacks, f))

\* Future._schedule_callbacks
schedule_callbacks(S, f) ==
    LET callbacks == S.futs[f].callbacks
    IN IF callbacks = <<>> THEN S
       ELSE write_self(call_soon_each([S EXCEPT !.futs[f].callbacks = <<>>],
                                      callbacks, f))

\* Future.cancel
cancel(S, f, msg) ==
    IF S.futs[f].state = "CANCELLED" THEN S
    ELSE schedule_callbacks(
             [S EXCEPT !.futs[f].state = "CANCELLED",
                       !.futs[f].cancel_msg = IF msg # "None" THEN msg ELSE @],
             f)

\* Future.set_result
Future_set_result(S, f, res) ==
    IF S.futs[f].state = "CANCELLED" THEN Raise(S)
    ELSE schedule_callbacks(
             [S EXCEPT !.futs[f].state = "FINISHED", !.futs[f].result = res], f)

\* Future.set_exception
Future_set_exception(S, f, exc) ==
    IF S.futs[f].state = "CANCELLED" THEN Raise(S)
    ELSE schedule_callbacks(
             [S EXCEPT !.futs[f].state = "FINISHED", !.futs[f].exception = exc],
             f)

\* set_result as the object dispatches it: Task.set_result always raises
set_result(S, f, res) ==
    IF S.futs[f].task THEN Raise(S) ELSE Future_set_result(S, f, res)

\* set_exception as the object dispatches it: Task.set_exception always raises
set_exception(S, f, exc) ==
    IF S.futs[f].task THEN Raise(S) ELSE Future_set_exception(S, f, exc)

\* Future.add_done_callback
add_done_callback(S, f, cb) ==
    IF S.futs[f].state # "PENDING" THEN Raise(S)
    ELSE [S EXCEPT !.futs[f].callbacks = Append(@, cb)]

\* list.remove: the first occurrence goes
RECURSIVE list_remove(_, _)
list_remove(l, x) ==
    IF l = <<>> THEN l
    ELSE IF Head(l) = x THEN Tail(l)
         ELSE <<Head(l)>> \o list_remove(Tail(l), x)

\* Future.remove_done_callback
remove_done_callback(S, f, cb) ==
    IF S.futs[f].state # "PENDING" THEN Raise(S)
    ELSE [S EXCEPT !.futs[f].callbacks = list_remove(@, cb)]

\* Future.done
done(fut) == fut.state # "PENDING"

\* Future.cancelled
cancelled(fut) == fut.state = "CANCELLED"

\* Future.result: what the call returns or raises
result(fut) ==
    IF ~done(fut) THEN [raises |-> "Result is not available"]
    ELSE IF cancelled(fut) THEN [raises |-> fut.cancel_msg]
    ELSE IF fut.exception # NoError THEN [raises |-> fut.exception]
    ELSE [returns |-> fut.result]

\* `if res:` applied to a result
truthy(v) == v \notin {NoValue, FalseV}

\* the Futures user code holds a reference to: all but the waiters that
\* wait and wait_for create for themselves
Known == {f \in DOMAIN futs : coro[f].st # "waiter"}

UserCb(k) == [fn |-> "user", arg |-> k]
\* the closure _on_completion of wait
OnCompletion(t) == [fn |-> "on_completion", arg |-> t]
\* the closure _done of wait_for
WfDone(t) == [fn |-> "wf_done", arg |-> t]
\* the closure _done of Task._step
StepCb(t) == [fn |-> "task_done", arg |-> t]

\* ------------------------------------------------------------------- Init

Init ==
    /\ hs = <<>>
    /\ handlers = <<>>
    /\ timed_handlers = <<>>
    /\ stopping = FALSE
    /\ closed = FALSE
    /\ wake = 0
    /\ now = 0
    /\ pc = "idle"
    /\ timeout = NoTimeout
    /\ selStart = 0
    /\ todo = 0
    /\ cur = 0
    /\ running_loop = FALSE
    /\ current_task = 0
    /\ futs = <<>>
    /\ coro = <<>>
    /\ ran = <<>>
    /\ fresh = {}
    /\ coheap = <<>>
    /\ lastexc = NoError
    /\ thr = [pc |-> "idle", h |-> 0]

\* --------------------------------------------------- user calls of the API
\* with Futures in play the callbacks are those the main program scheduled
CallSoon ==
    /\ InUser
    /\ (futs # <<>> => InMain)
    /\ Room(1)
    /\ Commit(call_soon(St, "user", 0, 0))
    /\ UNCHANGED <<loopvars, now, coro, ran>>

CallAt ==
    /\ InUser
    /\ Room(1)
    /\ \E when \in 0..MaxTime : Commit(call_at(St, when, "user", 0, 0))
    /\ UNCHANGED <<loopvars, now, coro, ran>>

CallLater ==
    /\ InUser
    /\ Room(1)
    /\ \E t \in Readings, delay \in 0..MaxDelay :
          /\ t + delay <= MaxTime
          /\ now' = t
          /\ Commit(call_later(St, t, delay, "user", 0, 0))
    /\ UNCHANGED <<loopvars, coro, ran>>

\* Handle.cancel
HandleCancel ==
    /\ InUser
    /\ \E h \in Range(handlers) \cup Range(timed_handlers) :
          /\ ~hs[h].cancelled
          /\ hs' = [hs EXCEPT ![h].cancelled = TRUE]
    /\ UNCHANGED <<handlers, timed_handlers, wake, futs, fresh, coheap,
                   loopvars, now, coro, ran>>
    /\ UNCHANGED <<lastexc, thr>>

\* BaseLoop.stop
Stop ==
    /\ InUser
    /\ ~stopping
    /\ Commit(write_self(St))
    /\ stopping' = TRUE
    /\ UNCHANGED <<closed, now, pc, timeout, selStart, todo, cur,
                   running_loop, current_task, coro, ran>>
    /\ UNCHANGED <<lastexc, thr>>

\* BaseLoop.run_forever up to the first _run_once
RunForever ==
    /\ pc = "idle"
    /\ ~closed
    /\ running_loop' = TRUE
    /\ pc' = "timeout"
    /\ UNCHANGED <<hs, handlers, timed_handlers, wake, futs, fresh, coheap,
                   stopping, closed, now, timeout, selStart, todo, cur,
                   current_task, coro, ran>>
    /\ UNCHANGED <<lastexc, thr>>

\* ------------------------------------------------------------ BaseLoop._run_once
\* the timeout of _run_once, t the value self.time() returns
select_timeout_blocking(t) ==
    IF timed_handlers # <<>>
    THEN Min(Max(0, hs[timed_handlers[1]].when - t), MAX_SELECT_TIMEOUT)
    ELSE NoTimeout

\* the timeout _run_once passes to select(), t being the reading of time()
select_timeout(t) ==
    IF handlers # <<>> \/ stopping THEN 0
    ELSE IF timed_handlers # <<>>
         THEN Min(Max(0, hs[timed_handlers[1]].when - t), MAX_SELECT_TIMEOUT)
         ELSE NoTimeout

ComputeTimeout ==
    /\ pc = "timeout"
    /\ \E t \in Readings :
          /\ (handlers # <<>> \/ stopping \/ timed_handlers = <<>>) => t = now
          /\ now' = t
          /\ timeout' = select_timeout(t)
          /\ selStart' = t
    /\ pc' = "select"
    /\ UNCHANGED <<hs, handlers, timed_handlers, wake, futs, fresh, coheap,
                   stopping, closed, todo, cur, running_loop,
                   current_task, coro, ran>>
    /\ UNCHANGED <<lastexc, thr>>

\* BaseLoop._process_events for the events select() returned
process_events(S) ==
    IF S.wake > 0 THEN call_soon(S, "read_self", 0, 0) ELSE S

\* selector.select(timeout) returns, then _process_events
Select ==
    /\ pc = "select"
    /\ IF wake > 0 \/ timeout = 0
       THEN now' = now
       ELSE /\ timeout # NoTimeout
            /\ selStart + timeout <= MaxTime
            /\ now' = Max(now, selStart + timeout)
    /\ wake > 0 => Room(1)
    /\ Commit([process_events([St EXCEPT !.fresh = {}]) EXCEPT !.fresh = {}])
    /\ timeout' = NoTimeout
    /\ selStart' = 0
    /\ pc' = "promote"
    /\ UNCHANGED <<stopping, closed, todo, cur, running_loop,
                   current_task, coro, ran>>
    /\ UNCHANGED <<lastexc, thr>>

due_always(when, end) == TRUE

\* the negation of `if handle._when >= end: break`
due(when, end) == ~(when >= end)

RECURSIVE promote(_, _, _, _)
promote(H, heap, q, end) ==
    IF heap = <<>> \/ ~due(H[heap[1]].when, end) THEN <<heap, q>>
    ELSE promote(H, heappop(H, heap), append_right(q, heap[1]), end)

Promote ==
    /\ pc = "promote"
    /\ \E end \in Readings :
          LET r == promote(hs, timed_handlers, handlers, end)
          IN /\ now' = end
             /\ timed_handlers' = r[1]
             /\ handlers' = r[2]
    /\ pc' = "snapshot"
    /\ UNCHANGED <<hs, wake, futs, fresh, coheap, stopping, closed,
                   timeout, selStart, todo, cur, running_loop, current_task,
                   coro, ran>>
    /\ UNCHANGED <<lastexc, thr>>

\* range(len(self._handlers)) is evaluated once
Snapshot ==
    /\ pc = "snapshot"
    /\ todo' = Len(handlers)
    /\ pc' = "exec"
    /\ UNCHANGED <<hs, handlers, timed_handlers, wake, futs, fresh, coheap,
                   stopping, closed, now, timeout, selStart, cur,
                   running_loop, current_task, coro, ran>>
    /\ UNCHANGED <<lastexc, thr>>

more_while_nonempty(n, q) == q # <<>>

\* the for loop of _run_once has iterations left
more(n, q) == n > 0

\* BaseLoop._read_self: recv until the channel is empty
read_self(S) == [S EXCEPT !.wake = 0]

step_returns_never(fut) == FALSE

\* Task._step: `if self._state != _PENDING: return`
step_returns(fut) == fut.state # "PENDING"

skips_never(h) == FALSE

\* `if handle._cancelled: continue`
skips(h) == h.cancelled

\* one iteration: popleft, the cancelled test, Handle._run up to the callback
RunHandle ==
    /\ pc = "exec"
    /\ more(todo, handlers)
    /\ LET h == Head(handlers)
           S == [St EXCEPT !.handlers = Tail(@)]
       IN /\ todo' = todo - 1
          /\ IF skips(hs[h])
             THEN /\ Commit(S)
                  /\ UNCHANGED <<pc, cur, ran, current_task, coro>>
             ELSE /\ ran' = Append(ran, h)
                  /\ CASE hs[h].fn = "user" ->
                            /\ Commit(S)
                            /\ pc' = "cb"
                            /\ cur' = h
                            /\ UNCHANGED <<current_task, coro>>
                       [] hs[h].fn = "read_self" ->
                            /\ Commit(read_self(S))
                            /\ UNCHANGED <<pc, cur, current_task, coro>>
                       [] hs[h].fn \in {"step", "task_done"} ->
                            LET t == hs[h].arg
                            IN IF step_returns(futs[t])
                               THEN /\ Commit(S)
                                    /\ UNCHANGED <<pc, cur, current_task, coro>>
                               ELSE IF coro[t].st \in {"created", "suspended"}
                               THEN /\ Commit(S)
                                    /\ current_task' = t
                                    /\ coro' = [coro EXCEPT ![t].st = "running",
                                                            ![t].sends = @ + 1]
                                    /\ pc' = "coro"
                                    /\ cur' = h
                               ELSE /\ Commit(Future_set_exception(
                                                  S, t, "RuntimeError"))
                                    /\ current_task' = 0
                                    /\ UNCHANGED <<pc, cur, coro>>
                       [] hs[h].fn = "on_completion" ->
                            LET t == hs[h].arg
                            IN /\ coro' = [coro EXCEPT
                                              ![t].counts = @ - 1,
                                              ![t].done = @ \cup {hs[h].src}]
                               /\ IF coro[t].counts - 1 <= 0
                                  THEN Commit(set_result(S, coro[t].waiter,
                                                         TrueV))
                                  ELSE Commit(S)
                               /\ UNCHANGED <<pc, cur, current_task>>
                       [] hs[h].fn = "wf_done" ->
                            /\ Commit(set_result(S, coro[hs[h].arg].waiter,
                                                 TrueV))
                            /\ UNCHANGED <<pc, cur, current_task, coro>>
                       [] hs[h].fn = "set_waiter" ->
                            /\ Commit(set_result(S, coro[hs[h].arg].waiter,
                                                 FalseV))
                            /\ UNCHANGED <<pc, cur, current_task, coro>>
                       [] hs[h].fn = "sock_done" ->
                            /\ Commit(set_result(S, coro[hs[h].arg].waiter,
                                                 TrueV))
                            /\ UNCHANGED <<pc, cur, current_task, coro>>
    /\ UNCHANGED <<stopping, closed, now, timeout, selStart, running_loop>>
    /\ UNCHANGED <<lastexc, thr>>

\* the user callback returns
CbReturn ==
    /\ pc = "cb"
    /\ pc' = "exec"
    /\ cur' = 0
    /\ UNCHANGED <<hs, handlers, timed_handlers, wake, futs, fresh, coheap,
                   stopping, closed, now, timeout, selStart, todo,
                   running_loop, current_task, coro, ran>>
    /\ UNCHANGED <<lastexc, thr>>

\* the exception e is raised inside a try block of the reactor, at `at`
Raises(e, at) ==
    /\ lastexc' = e
    /\ pc' = at
    /\ UNCHANGED <<hs, handlers, timed_handlers, wake, futs, fresh, coheap,
                   stopping, closed, now, timeout, selStart, todo, cur,
                   running_loop, current_task, coro, ran, thr>>

\* the exception leaves _run_once; run_forever re-raises it to its caller
\* through the finally clause
Unwind ==
    /\ pc' = "idle"
    /\ cur' = 0
    /\ todo' = 0
    /\ timeout' = NoTimeout
    /\ selStart' = 0
    /\ running_loop' = FALSE

\* the user callback raises an ordinary error
CbRaise ==
    /\ pc = "cb"
    /\ \E e \in Errors : Raises(e, "cb_exc")

\* the user callback raises SystemExit or KeyboardInterrupt
CbSignal ==
    /\ pc = "cb"
    /\ \E e \in Signals : Raises(e, "cb_exc")

reraises_all(e) == TRUE

\* Handle._run: `except (SystemExit, KeyboardInterrupt): raise`
reraises(e) == e \in Signals

\* the except clauses of Handle._run
HandleExcept ==
    /\ pc = "cb_exc"
    /\ IF reraises(lastexc)
       THEN Unwind
       ELSE /\ pc' = "exec"
            /\ cur' = 0
            /\ UNCHANGED <<todo, timeout, selStart, running_loop>>
    /\ UNCHANGED <<hs, handlers, timed_handlers, wake, futs, fresh, coheap,
                   stopping, closed, now, current_task, coro, ran,
                   lastexc, thr>>

\* selector.select raises: an OS error, or a signal delivered to the thread
SelectRaise ==
    /\ pc = "select"
    /\ \E e \in Signals \cup {"OSError"} : Raises(e, "select_exc")

\* _run_once: the bare `except: pass` around select and _process_events
bare_except(e) == TRUE

\* the except clause around select: the tick goes on without I/O work
SelectExcept ==
    /\ pc = "select_exc"
    /\ IF bare_except(lastexc)
       THEN /\ pc' = "promote"
            /\ timeout' = NoTimeout
            /\ selStart' = 0
            /\ UNCHANGED <<todo, cur, running_loop>>
       ELSE Unwind
    /\ fresh' = {}
    /\ UNCHANGED <<hs, handlers, timed_handlers, wake, futs, coheap,
                   stopping, closed, now, current_task, coro, ran,
                   lastexc, thr>>

\* BaseLoop.close: raises unless _stopping is set
Close ==
    /\ InUser
    /\ IF ~stopping
       THEN /\ lastexc' = CloseError
            /\ closed' = closed
       ELSE /\ closed' = TRUE
            /\ lastexc' = lastexc
    /\ UNCHANGED <<hs, handlers, timed_handlers, wake, futs, fresh, coheap,
                   stopping, now, pc, timeout, selStart, todo, cur,
                   running_loop, current_task, coro, ran, thr>>

\* the for loop is over; back in run_forever: the stopping test and finally
ExecDone ==
    /\ pc = "exec"
    /\ ~more(todo, handlers)
    /\ todo' = 0
    /\ running_loop' = FALSE
    /\ IF stopping
       THEN stopping' = FALSE /\ pc' = "idle"
       ELSE stopping' = stopping /\ pc' = "timeout"
    /\ UNCHANGED <<hs, handlers, timed_handlers, wake, futs, fresh, coheap,
                   closed, now, timeout, selStart, cur, current_task, coro,
                   ran>>
    /\ UNCHANGED <<lastexc, thr>>

\* ------------------------------------------- user calls of the Future API
NumTasks == Cardinality({f \in DOMAIN futs : futs[f].task})

\* BaseLoop.create_future; the main program creates its Futures first
CreateFuture ==
    /\ InMain
    /\ hs = <<>>
    /\ Len(futs) - NumTasks < MaxFut
    /\ futs' = Append(futs, Future(FALSE, "Future is cancelled"))
    /\ coro' = Append(coro, [st |-> "none", sends |-> 0])
    /\ UNCHANGED <<hs, handlers, timed_handlers, wake, fresh, coheap,
                   loopvars, now, ran>>
    /\ UNCHANGED <<lastexc, thr>>

\* BaseLoop.create_task with a coroutine: Task.__init__
CreateTask ==
    /\ InMain
    /\ NumTasks < MaxTasks
    /\ Room(1)
    /\ LET t == Len(futs) + 1
           S == [St EXCEPT !.futs = Append(@, Future(TRUE, "Task is cancelled"))]
       IN Commit(call_soon(S, "step", t, 0))
    /\ coro' = Append(coro, [st |-> "created", sends |-> 0])
    /\ UNCHANGED <<loopvars, now, ran>>

FSetResult ==
    /\ InUser
    /\ \E f \in Known, res \in Values :
          /\ Room(Len(futs[f].callbacks))
          /\ LET S == set_result(St, f, res)
             IN Commit(S)
    /\ UNCHANGED <<loopvars, now, coro, ran>>

FSetException ==
    /\ InUser
    /\ \E f \in DOMAIN futs, exc \in Errors :
          /\ Room(Len(futs[f].callbacks))
          /\ LET S == set_exception(St, f, exc)
             IN Commit(S)
    /\ UNCHANGED <<loopvars, now, coro, ran>>

FCancel ==
    /\ InUser
    /\ \E f \in Known, msg \in Msgs :
          /\ Room(Len(futs[f].callbacks))
          /\ LET S == cancel(St, f, msg)
             IN Commit(S)
    /\ UNCHANGED <<loopvars, now, coro, ran>>

AddDoneCallback ==
    /\ InUser
    /\ \E f \in DOMAIN futs, k \in CbTags :
          /\ Len(futs[f].callbacks) < MaxCb
          /\ LET S == add_done_callback(St, f, UserCb(k))
             IN Commit(S)
    /\ UNCHANGED <<loopvars, now, coro, ran>>

RemoveDoneCallback ==
    /\ InUser
    /\ \E f \in DOMAIN futs, k \in CbTags :
          LET S == remove_done_callback(St, f, UserCb(k))
          IN Commit(S)
    /\ UNCHANGED <<loopvars, now, coro, ran>>

\* ------------------------------------- Task._step after self._coro.send(None)
StepExit(t, st) ==
    /\ coro' = [coro EXCEPT ![t].st = st]
    /\ current_task' = 0
    /\ pc' = "exec"
    /\ cur' = 0
    /\ UNCHANGED <<stopping, closed, now, timeout, selStart, todo,
                   running_loop, ran>>
    /\ UNCHANGED <<lastexc, thr>>

\* the coroutine yields a Future: _done is registered on it; when
\* add_done_callback raises, the error is stored on the Task
CoroYield ==
    /\ pc = "coro"
    /\ \E f \in DOMAIN futs :
          LET t == current_task
              S == add_done_callback(St, f, StepCb(t))
          IN /\ Len(futs[f].callbacks) < MaxCb
             /\ Room(Len(futs[t].callbacks))
             /\ IF S.raised
                THEN Commit(Future_set_exception(St, t, "RuntimeError"))
                ELSE Commit(S)
             /\ StepExit(t, "suspended")

\* the coroutine yields something that is not a Future: the RuntimeError is
\* constructed and dropped
CoroYieldOther ==
    /\ pc = "coro"
    /\ StepExit(current_task, "suspended")
    /\ UNCHANGED <<hs, handlers, timed_handlers, wake, futs, fresh, coheap>>

\* StopIteration: super().set_result(exc.value)
CoroReturn ==
    /\ pc = "coro"
    /\ \E res \in Values :
          LET t == current_task
          IN /\ Room(Len(futs[t].callbacks))
             /\ Commit(Future_set_result(St, t, res))
             /\ StepExit(t, "closed")

step_except_pass(S, t, exc) == S

\* Task._step: `except BaseException as exc: super().set_exception(exc)`
step_except(S, t, exc) == Future_set_exception(S, t, exc)

\* the coroutine raises an exception other than StopIteration
CoroRaise ==
    /\ pc = "coro"
    /\ \E exc \in Errors :
          LET t == current_task
          IN /\ Room(Len(futs[t].callbacks))
             /\ Commit(step_except(St, t, exc))
             /\ StepExit(t, "closed")

Next ==
    \/ CallSoon
    \/ CallAt
    \/ CallLater
    \/ HandleCancel
    \/ RunForever
    \/ ComputeTimeout
    \/ Select
    \/ Promote
    \/ Snapshot
    \/ RunHandle
    \/ CbReturn
    \/ ExecDone

Spec == Init /\ [][Next]_vars

\* the steps of the owning thread inside run_forever
LoopStep ==
    \/ ComputeTimeout
    \/ Select
    \/ Promote
    \/ Snapshot
    \/ RunHandle
    \/ CbReturn
    \/ ExecDone

\* ------------------------------------------- the combinators of utils.py
\* create_task(wait(fs)), fs every Future and Task created so far
CreateWaitTask ==
    /\ InMain
    /\ futs # <<>>
    /\ NumTasks < MaxTasks
    /\ Room(1)
    /\ LET t == Len(futs) + 1
           S == [St EXCEPT !.futs = Append(@, Future(TRUE, "Task is cancelled"))]
       IN Commit(call_soon(S, "step", t, 0))
    /\ coro' = Append(coro, [st |-> "created", sends |-> 0, kind |-> "wait",
                             fs |-> [i \in 1..Len(futs) |-> i], counts |-> 0,
                             done |-> {}, pending |-> {}, waiter |-> 0])
    /\ UNCHANGED <<loopvars, now, ran>>

\* create_task(wait_for(fut, timeout))
CreateWaitForTask ==
    /\ InMain
    /\ NumTasks < MaxTasks
    /\ Room(1)
    /\ LET t == Len(futs) + 1
           S == [St EXCEPT !.futs = Append(@, Future(TRUE, "Task is cancelled"))]
       IN Commit(call_soon(S, "step", t, 0))
    /\ \E fut \in DOMAIN futs, delay \in 0..MaxDelay :
          coro' = Append(coro, [st |-> "created", sends |-> 0,
                                kind |-> "wait_for", fut |-> fut,
                                timeout |-> delay, waiter |-> 0])
    /\ UNCHANGED <<loopvars, now, ran>>

\* Task._step returns to the for loop after a step of wait or wait_for
ComboExit ==
    /\ current_task' = 0
    /\ pc' = "exec"
    /\ cur' = 0
    /\ UNCHANGED <<stopping, closed, timeout, selStart, todo, running_loop,
                   ran, lastexc, thr>>

\* loop.create_future() inside wait and wait_for
NewWaiter(S) == [S EXCEPT !.futs = Append(@, Future(FALSE, "Future is cancelled"))]

\* wait: `for fut in fs: fut.add_done_callback(_on_completion);
\* pending.add(fut)`, up to the first add_done_callback that raises
RECURSIVE wait_register(_, _, _, _)
wait_register(S, fs, t, pending) ==
    IF fs = <<>> THEN [S |-> S, pending |-> pending]
    ELSE LET S1 == add_done_callback(S, Head(fs), OnCompletion(t))
         IN IF S1.raised THEN [S |-> S1, pending |-> pending]
            ELSE wait_register(S1, Tail(fs), t, pending \cup {Head(fs)})

\* wait, from its first statement to `await waiter`
CoroWaitStart ==
    /\ pc = "coro"
    /\ coro[current_task].kind = "wait"
    /\ coro[current_task].sends = 1
    /\ LET t == current_task
           w == Len(futs) + 1
           R == wait_register(NewWaiter(St), coro[t].fs, t, {})
           locals == [coro[t] EXCEPT !.counts = Len(coro[t].fs),
                                     !.pending = R.pending,
                                     !.waiter = w]
           st == IF R.S.raised THEN "closed" ELSE "suspended"
       IN /\ IF R.S.raised
             THEN Commit(step_except(R.S, t, "RuntimeError"))
             ELSE Commit(add_done_callback(R.S, w, StepCb(t)))
          /\ coro' = Append([coro EXCEPT ![t] = [locals EXCEPT !.st = st]],
                            [st |-> "waiter", sends |-> 0])
    /\ now' = now
    /\ ComboExit

\* wait, resumed at `await waiter`: `return done, pending`
CoroWaitResume ==
    /\ pc = "coro"
    /\ coro[current_task].kind = "wait"
    /\ coro[current_task].sends > 1
    /\ LET t == current_task
           r == result(futs[coro[t].waiter])
       IN /\ IF "returns" \in DOMAIN r
             THEN Commit(Future_set_result(
                      St, t, [done |-> coro[t].done,
                              pending |-> coro[t].pending]))
             ELSE Commit(step_except(St, t, r.raises))
          /\ coro' = [coro EXCEPT ![t].st = "closed"]
    /\ now' = now
    /\ ComboExit

\* wait_for, from its first statement to `res = await waiter`
CoroWaitForStart ==
    /\ pc = "coro"
    /\ coro[current_task].kind = "wait_for"
    /\ coro[current_task].sends = 1
    /\ \E tt \in Readings :
          LET t == current_task
              w == Len(futs) + 1
              S1 == call_later(NewWaiter(St), tt, coro[t].timeout,
                               "set_waiter", t, 0)
              S2 == add_done_callback(S1, coro[t].fut, WfDone(t))
              st == IF S2.raised THEN "closed" ELSE "suspended"
          IN /\ tt + coro[t].timeout <= MaxTime
             /\ now' = tt
             /\ IF S2.raised
                THEN Commit(step_except(S2, t, "RuntimeError"))
                ELSE Commit(add_done_callback(S2, w, StepCb(t)))
             /\ coro' = Append([coro EXCEPT ![t].st = st, ![t].waiter = w],
                               [st |-> "waiter", sends |-> 0])
    /\ ComboExit

\* wait_for, resumed: `if res: return fut.result()`,
\* `else: raise RuntimeError("Timed out")`
CoroWaitForResume ==
    /\ pc = "coro"
    /\ coro[current_task].kind = "wait_for"
    /\ coro[current_task].sends > 1
    /\ LET t == current_task
           r == result(futs[coro[t].waiter])
           fr == result(futs[coro[t].fut])
       IN /\ IF "raises" \in DOMAIN r
             THEN Commit(step_except(St, t, r.raises))
             ELSE IF ~truthy(r.returns)
             THEN Commit(step_except(St, t, "Timed out"))
             ELSE IF "raises" \in DOMAIN fr
             THEN Commit(step_except(St, t, fr.raises))
             ELSE Commit(Future_set_result(St, t, fr.returns))
          /\ coro' = [coro EXCEPT ![t].st = "closed"]
    /\ now' = now
    /\ ComboExit

\* a Task running wait over Futures that user callbacks complete
NextWait ==
    \/ CreateFuture
    \/ CreateWaitTask
    \/ CallSoon
    \/ FSetResult
    \/ FCancel
    \/ RunForever
    \/ LoopStep
    \/ CoroWaitStart
    \/ CoroWaitResume

SpecWait == Init /\ [][NextWait]_vars

\* a Task running wait_for on a Future that a user callback may complete
NextWaitFor ==
    \/ CreateFuture
    \/ CreateWaitForTask
    \/ CallSoon
    \/ FSetResult
    \/ RunForever
    \/ LoopStep
    \/ CoroWaitForStart
    \/ CoroWaitForResume

SpecWaitFor == Init /\ [][NextWaitFor]_vars

\* ------------------------------------------------------ a second thread
\* what the second thread leaves alone
ownvars == <<closed, now, pc, timeout, selStart, todo, cur, running_loop,
             current_task, coro, ran, lastexc>>

\* stop() called by the second thread, its first statement: _write_self()
ThreadStopWrite ==
    /\ thr.pc = "idle"
    /\ pc # "idle"
    /\ Room(1)
    /\ Commit(write_self(St))
    /\ thr' = [thr EXCEPT !.pc = "stop_wrote"]
    /\ UNCHANGED <<ownvars, stopping>>

\* stop() called by the second thread, its second statement
ThreadStopSet ==
    /\ thr.pc = "stop_wrote"
    /\ stopping' = TRUE
    /\ thr' = [thr EXCEPT !.pc = "idle"]
    /\ UNCHANGED <<hs, handlers, timed_handlers, wake, futs, fresh, coheap,
                   ownvars>>

\* call_soon_threadsafe called by the second thread: self.call_soon(fn);
\* room is left for the handle of the wake-up it is about to cause
ThreadCallSoon ==
    /\ thr.pc = "idle"
    /\ pc # "idle"
    /\ Room(2)
    /\ Commit(call_soon(St, "user", 0, 0))
    /\ thr' = [pc |-> "cst_added", h |-> Len(hs) + 1]
    /\ UNCHANGED <<ownvars, stopping>>

\* call_soon_threadsafe, its second statement: self._write_self()
ThreadWrite ==
    /\ thr.pc = "cst_added"
    /\ Commit(write_self(St))
    /\ thr' = [thr EXCEPT !.pc = "idle"]
    /\ UNCHANGED <<ownvars, stopping>>

\* the reactor stopped from its callbacks and from a second thread
NextStop ==
    \/ CallSoon
    \/ Stop
    \/ ThreadStopWrite
    \/ ThreadStopSet
    \/ RunForever
    \/ ComputeTimeout
    \/ Select
    \/ Promote
    \/ Snapshot
    \/ RunHandle
    \/ CbReturn
    \/ ExecDone

SpecStop == Init /\ [][NextStop]_vars

\* the reactor fed by call_soon_threadsafe from a second thread
NextWake ==
    \/ RunForever
    \/ ThreadCallSoon
    \/ ThreadWrite
    \/ LoopStep

\* both threads keep being scheduled
SpecWake ==
    /\ Init /\ [][NextWake]_vars
    /\ WF_vars(LoopStep)
    /\ WF_vars(ThreadWrite)

\* the life cycle of the reactor: stop(), close(), and the exceptions
\* raised into a tick by a callback or by the poll
NextLife ==
    \/ CallSoon
    \/ Stop
    \/ Close
    \/ RunForever
    \/ ComputeTimeout
    \/ Select
    \/ SelectRaise
    \/ SelectExcept
    \/ Promote
    \/ Snapshot
    \/ RunHandle
    \/ CbReturn
    \/ CbRaise
    \/ CbSignal
    \/ HandleExcept
    \/ ExecDone

SpecLife == Init /\ [][NextLife]_vars

\* plain Futures, their continuations run by the reactor
NextFut ==
    \/ CreateFuture
    \/ FSetResult
    \/ FSetException
    \/ FCancel
    \/ AddDoneCallback
    \/ RemoveDoneCallback
    \/ RunForever
    \/ ComputeTimeout
    \/ Select
    \/ Promote
    \/ Snapshot
    \/ RunHandle
    \/ CbReturn
    \/ ExecDone

SpecFut == Init /\ [][NextFut]_vars

\* Tasks driven by the reactor, awaiting Futures that user callbacks complete
NextTask ==
    \/ CreateFuture
    \/ CreateTask
    \/ CallSoon
    \/ FSetResult
    \/ FCancel
    \/ RunForever
    \/ ComputeTimeout
    \/ Select
    \/ Promote
    \/ Snapshot
    \/ RunHandle
    \/ CbReturn
    \/ CoroYield
    \/ CoroYieldOther
    \/ CoroReturn
    \/ CoroRaise
    \/ ExecDone

SpecTask == Init /\ [][NextTask]_vars

\* ------------------------------------------------------------ the claims
RanIds == Range(ran)
Pos(h) == CHOOSE i \in DOMAIN ran : ran[i] = h
Plain(h) == ~hs[h].timed
Pending(h) == h \in Range(handlers) \cup Range(timed_handlers)
\* a was invoked before b was, or was dropped as cancelled without running
RanFirst(a, b) == IF a \in RanIds THEN Pos(a) < Pos(b) ELSE hs[a].cancelled
\* the two handles sat in the timer heap at the same time
Together(a, b) == a \in coheap[b] \/ b \in coheap[a]

\* at the end of the for loop only handles enqueued during the phase are queued
DrainedAtEnd ==
    (pc = "exec" /\ todo = 0) => Range(handlers) \subseteq fresh

\* C1: during the execute phase the ready queue is the not yet visited part
\* of the snapshot followed by the handles the callbacks of this phase
\* enqueued, so the phase removes exactly the snapshot; and no handle
\* enqueued by a callback has run before the next poll.
C1_SnapshotFairness ==
    /\ pc \in {"exec", "cb", "coro"} =>
          /\ Len(handlers) = todo + Cardinality(fresh)
          /\ \A i \in DOMAIN handlers : (i > todo) <=> (handlers[i] \in fresh)
    /\ fresh \cap RanIds = {}

C1_Witness ==
    /\ pc = "exec"
    /\ todo = 0
    /\ ran # <<>>
    /\ fresh # {}
    /\ Range(handlers) = fresh

\* C2: callbacks handed to call_soon run in the order of the call_soon
\* invocations: when b has run, every handle enqueued by an earlier call_soon
\* has run before it or was cancelled.
C2_FifoOrder ==
    \A a, b \in DOMAIN hs :
        (Plain(a) /\ Plain(b) /\ a < b /\ b \in RanIds) => RanFirst(a, b)

C2_Witness ==
    \E a, b \in DOMAIN hs :
        /\ Plain(a) /\ Plain(b) /\ a < b
        /\ hs[a].fn = "user" /\ hs[b].fn = "user"
        /\ a \in RanIds /\ b \in RanIds /\ Pos(a) < Pos(b)

\* C3: a handle cancelled before the reactor reaches it is never invoked, and
\* skipping it only drops it: the loop goes on with the next handle.
C3_CancelledNeverRuns ==
    [][/\ \A h \in DOMAIN hs :
             (hs[h].cancelled /\ h \notin RanIds) => h \notin RanIds'
       /\ (pc = "exec" /\ todo > 0 /\ handlers # <<>> /\ todo' # todo
            /\ hs[Head(handlers)].cancelled) =>
             /\ handlers' = Tail(handlers)
             /\ todo' = todo - 1
             /\ pc' = "exec"
             /\ ran' = ran]_vars

\* an earlier handle ran, the next one was cancelled and dropped, and the one
\* after it is running
C3_Witness ==
    /\ pc = "cb"
    /\ \E a, h \in DOMAIN hs :
          /\ Plain(a) /\ Plain(h) /\ Plain(cur) /\ a < h /\ h < cur
          /\ a \in RanIds
          /\ hs[h].cancelled /\ h \notin RanIds /\ ~Pending(h)

\* C4 as stated: of two timed callbacks that ran, the one with the smaller
\* deadline ran first, whenever they were registered.
C4_AnyRegistration ==
    \A f1, f2 \in DOMAIN hs :
        (/\ hs[f1].timed /\ hs[f2].timed
         /\ hs[f1].when < hs[f2].when
         /\ ~hs[f1].cancelled /\ ~hs[f2].cancelled
         /\ f1 \in RanIds /\ f2 \in RanIds) => Pos(f1) < Pos(f2)

\* C4 (amended): two timed callbacks that were in the timer heap at the same
\* time run in deadline order.
C4_DeadlineOrder ==
    \A f1, f2 \in DOMAIN hs :
        (/\ hs[f1].timed /\ hs[f2].timed
         /\ hs[f1].when < hs[f2].when
         /\ Together(f1, f2)
         /\ f2 \in RanIds) => RanFirst(f1, f2)

C4_Witness ==
    \E f1, f2 \in DOMAIN hs :
        /\ hs[f1].timed /\ hs[f2].timed
        /\ hs[f1].when < hs[f2].when
        /\ f2 < f1
        /\ Together(f1, f2)
        /\ f1 \in RanIds /\ f2 \in RanIds /\ Pos(f1) < Pos(f2)

\* C5: a timed callback is invoked only when the clock has been read at or
\* past its deadline; a call_soon callback scheduled while the timer is
\* pending runs before it, and is out of the queue when the tick ends.
C5_NotBeforeDeadline ==
    /\ [][\A h \in DOMAIN hs :
             (hs[h].timed /\ h \in RanIds' /\ h \notin RanIds)
                 => now >= hs[h].when]_vars
    /\ [](\A g, f \in DOMAIN hs :
             (/\ Plain(g) /\ hs[f].timed
              /\ (g < f \/ f \in coheap[g])
              /\ f \in RanIds) => RanFirst(g, f))
    /\ []DrainedAtEnd

C5_Witness ==
    \E g, f \in DOMAIN hs :
        /\ Plain(g) /\ hs[f].timed /\ hs[f].when > 0
        /\ f \in coheap[g]
        /\ g \in RanIds /\ f \in RanIds /\ Pos(g) < Pos(f)
        /\ now >= hs[f].when

\* C6 as stated: once set_result(v) has fulfilled a Future, a second
\* set_result or set_exception is rejected and leaves the stored result and
\* error as they were.
C6_SecondCompletionRejected ==
    [][\A f \in DOMAIN futs :
          (futs[f].state = "FINISHED" /\ futs[f].exception = NoError) =>
              /\ futs'[f].result = futs[f].result
              /\ futs'[f].exception = NoError]_vars

\* C7 as stated: the stored result and the stored error are never both set.
C7_ResultXorError ==
    \A f \in DOMAIN futs :
        ~(futs[f].result # NoValue /\ futs[f].exception # NoError)

\* C8 as stated: no operation changes the state of a Future that is
\* Fulfilled or Cancelled.
C8_TerminalStates ==
    [][\A f \in DOMAIN futs :
          futs[f].state # "PENDING" => futs'[f].state = futs[f].state]_vars

\* C9: the step that ends a Pending Future invokes no callback; it appends
\* one new handle per registered continuation to the ready queue, in
\* registration order, and leaves the callback list empty.
C9_ContinuationsQueued ==
    [][\A f \in DOMAIN futs :
          (futs[f].state = "PENDING" /\ futs'[f].state # "PENDING") =>
              LET cbs == futs[f].callbacks
                  n == Len(cbs)
                  m == Len(handlers')
              IN /\ futs'[f].callbacks = <<>>
                 /\ ran' = ran
                 /\ Len(hs') = Len(hs) + n
                 /\ timed_handlers' = timed_handlers
                 /\ m >= n
                 /\ \A i \in 1..n :
                       LET id == handlers'[m - n + i]
                       IN /\ id = Len(hs) + i
                          /\ hs'[id] = Handle(cbs[i].fn, cbs[i].arg, f)
                 /\ \A j \in 1..(m - n) : handlers'[j] <= Len(hs)]_vars

C9_Witness ==
    \E f \in DOMAIN futs :
        /\ futs[f].state # "PENDING"
        /\ futs[f].callbacks = <<>>
        /\ \E i \in DOMAIN handlers :
              /\ i + 1 \in DOMAIN handlers
              /\ hs[handlers[i]] = Handle("user", 1, f)
              /\ hs[handlers[i + 1]] = Handle("user", 2, f)
              /\ handlers[i + 1] = handlers[i] + 1
        /\ ran = <<>>

\* C10: once a Task is Cancelled its coroutine is never sent into again and
\* the Task stays as it is, whatever step handle runs afterwards.
C10_CancelledTaskNotResumed ==
    [][\A t \in DOMAIN futs :
          (futs[t].task /\ futs[t].state = "CANCELLED") =>
              /\ coro'[t].sends = coro[t].sends
              /\ futs'[t] = futs[t]]_vars

\* the Task was cancelled while suspended on a Future, the Future completed
\* and the continuation that would resume the Task ran without resuming it
C10_Witness ==
    \E t \in DOMAIN futs, h \in DOMAIN hs :
        /\ futs[t].task
        /\ futs[t].state = "CANCELLED"
        /\ coro[t].st = "suspended"
        /\ coro[t].sends = 1
        /\ hs[h].fn = "task_done" /\ hs[h].arg = t
        /\ h \in RanIds

\* C11 as stated: a resume step in which the coroutine suspends without a
\* continuation being registered on any Future (it yielded something that
\* is not a Future) leaves the Task done, result() raising the protocol
\* error.
C11_NonFutureYieldFails ==
    [][\A t \in DOMAIN futs :
          (/\ futs[t].task
           /\ coro[t].st = "running" /\ coro'[t].st = "suspended"
           /\ \A f \in DOMAIN futs : futs'[f].callbacks = futs[f].callbacks)
          => /\ done(futs'[t])
             /\ result(futs'[t]) = [raises |-> "RuntimeError"]]_vars

\* C12: the resume step in which the coroutine raises E leaves the Task
\* done, not cancelled, result() raising E; the step returns to the for loop
\* of the tick, which has its remaining handles still to run.
C12_TaskErrorCaptured ==
    [][\A t \in DOMAIN futs :
          (/\ pc = "coro" /\ current_task = t
           /\ coro'[t].st = "closed"
           /\ futs'[t].result = NoValue)
          => /\ done(futs'[t])
             /\ ~cancelled(futs'[t])
             /\ \E e \in Errors : result(futs'[t]) = [raises |-> e]
             /\ pc' = "exec"
             /\ todo' = todo
             /\ running_loop' = running_loop
             /\ SubSeq(handlers', 1, Len(handlers)) = handlers]_vars

\* a Task ended with the error its coroutine raised and the handle queued
\* behind its step is running
C12_Witness ==
    \E t \in DOMAIN futs :
        /\ futs[t].task
        /\ coro[t].st = "closed"
        /\ result(futs[t]) = [raises |-> "E"]
        /\ pc = "cb"
        /\ Len(ran) >= 2
        /\ ran[Len(ran)] = cur
        /\ hs[ran[Len(ran) - 1]].fn = "step"
        /\ hs[ran[Len(ran) - 1]].arg = t

\* C13 as stated: once the reactor is closed no call made by the main
\* program or by a callback changes the ready queue or the timer heap, and
\* run_forever does not start.
C13_ClosedRejectsScheduling ==
    [][closed =>
          /\ (pc' = pc /\ pc \in {"idle", "cb"}) =>
                 /\ handlers' = handlers
                 /\ timed_handlers' = timed_handlers
          /\ pc = "idle" => pc' = "idle"]_vars

\* C14 as stated: close() marks the reactor closed only while run_forever
\* is not executing, raises only while it is executing, and a closed
\* reactor stays closed.
C14_CloseOnlyWhenNotRunning ==
    [][/\ (closed' /\ ~closed) => pc = "idle"
       /\ (lastexc' = CloseError /\ lastexc # CloseError) => pc # "idle"
       /\ closed => closed']_vars

\* C17: an ordinary error raised by a callback is caught by Handle._run: the
\* for loop of the tick goes on with the same iterations left and the same
\* queues, and run_forever stays in its loop.
C17_ErrorContained ==
    [][(pc = "cb_exc" /\ lastexc \notin Signals) =>
          /\ pc' = "exec"
          /\ todo' = todo
          /\ handlers' = handlers
          /\ timed_handlers' = timed_handlers
          /\ stopping' = stopping]_vars

\* the first callback of the first tick raised an ordinary error and the
\* handle behind it in the snapshot is running
C17_Witness ==
    /\ pc = "cb"
    /\ running_loop
    /\ wake = 0
    /\ lastexc \in Errors
    /\ Len(ran) = 2
    /\ cur = ran[2]

\* C18 as stated: SystemExit or KeyboardInterrupt raised inside a callback or
\* inside the poll leaves the tick and run_forever, reaching the caller.
C18_SignalPropagates ==
    [][(pc \in {"cb_exc", "select_exc"} /\ lastexc \in Signals) =>
          /\ pc' = "idle"
          /\ lastexc' = lastexc]_vars

\* C15 as stated: after a stop request the reactor is never left blocked in
\* a poll with no timeout and nothing to read on the wake channel; at the
\* end of the tick that sees the request run_forever returns and the
\* stopping flag is cleared.
C15_StopEndsRun ==
    /\ [](~(/\ stopping /\ thr.pc = "idle"
            /\ pc = "select" /\ timeout = NoTimeout /\ wake = 0))
    /\ [][(pc = "exec" /\ todo = 0 /\ stopping /\ pc' # pc) =>
              (pc' = "idle" /\ ~stopping')]_vars

\* C16: a handle queued by call_soon_threadsafe while run_forever is
\* executing is eventually invoked.
C16_NoMissedWakeup ==
    \A h \in 1..MaxHandles : [](thr.h = h => <>(h \in RanIds))

\* the second thread queued the first handle, the poll returned and the
\* handle ran, followed by the handle that drains the wake channel
C16_Witness ==
    /\ thr = [pc |-> "idle", h |-> 1]
    /\ Len(ran) = 2
    /\ ran[1] = 1
    /\ hs[ran[2]].fn = "read_self"
    /\ wake = 0

\* C19 as stated: when a Task running wait(fs) with no timeout has
\* returned, every member of fs is done, the returned done set is fs and
\* the returned pending set is empty.
C19_WaitReturnsAllDone ==
    \A t \in DOMAIN futs :
        (/\ futs[t].task /\ coro[t].kind = "wait"
         /\ futs[t].state = "FINISHED" /\ futs[t].exception = NoError)
        => /\ \A f \in Range(coro[t].fs) : done(futs[f])
           /\ futs[t].result.done = Range(coro[t].fs)
           /\ futs[t].result.pending = {}

\* C20 as stated: when a Task running wait_for(fut, timeout) has ended with
\* the timeout error, fut is cancelled.
C20_TimeoutCancels ==
    \A t \in DOMAIN futs :
        (/\ futs[t].task /\ coro[t].kind = "wait_for"
         /\ result(futs[t]) = [raises |-> "Timed out"])
        => cancelled(futs[coro[t].fut])

\* C21 as stated: the promote phase leaves on top of the timer heap only a
\* timer whose deadline is strictly after the clock reading of the phase,
\* and moves to the ready queue only timers whose deadline is at or before
\* that reading, in ascending deadline order behind what was queued.
C21_PromotesDueTimers ==
    [][(pc = "promote" /\ pc' = "snapshot") =>
          /\ timed_handlers' # <<>> => hs[timed_handlers'[1]].when > now'
          /\ SubSeq(handlers', 1, Len(handlers)) = handlers
          /\ \A i \in (Len(handlers) + 1)..Len(handlers') :
                /\ hs[handlers'[i]].when <= now'
                /\ i < Len(handlers') =>
                      hs[handlers'[i]].when <= hs[handlers'[i + 1]].when]_vars

\* a deadline further ahead than the longest poll the reactor allows
FarDeadline == MAX_SELECT_TIMEOUT + MaxTime + 1

\* call_at with a deadline more than MAX_SELECT_TIMEOUT ahead
CallFar ==
    /\ InUser
    /\ Room(1)
    /\ Commit(call_at(St, FarDeadline, "user", 0, 0))
    /\ UNCHANGED <<loopvars, now, coro, ran>>

\* the reactor with ready callbacks, near and far timers and stop()
NextPoll ==
    \/ CallSoon
    \/ CallLater
    \/ CallFar
    \/ Stop
    \/ RunForever
    \/ ComputeTimeout
    \/ Select
    \/ Promote
    \/ Snapshot
    \/ RunHandle
    \/ CbReturn
    \/ ExecDone

SpecPoll == Init /\ [][NextPoll]_vars

EarliestDeadline ==
    CHOOSE w \in {hs[timed_handlers[i]].when : i \in DOMAIN timed_handlers} :
        \A i \in DOMAIN timed_handlers : w <= hs[timed_handlers[i]].when

\* C22: the timeout a tick computes is 0 when the ready queue is non-empty
\* or a stop is requested; otherwise, with a timer pending, it is the time
\* from the clock reading to the earliest deadline, clamped to
\* [0, MAX_SELECT_TIMEOUT]; otherwise it is None.  So the poll never waits
\* with ready work or a stop pending, and waits without limit only when
\* both collections are empty and no stop is pending.
C22_PollTimeout ==
    /\ [][(pc = "timeout" /\ pc' = "select") =>
             timeout' =
                IF handlers # <<>> \/ stopping THEN 0
                ELSE IF timed_handlers # <<>>
                     THEN LET d == EarliestDeadline - now'
                          IN  IF d < 0 THEN 0
                              ELSE IF d > MAX_SELECT_TIMEOUT
                                   THEN MAX_SELECT_TIMEOUT ELSE d
                     ELSE NoTimeout]_vars
    /\ [](pc = "select" /\ (handlers # <<>> \/ stopping) => timeout = 0)
    /\ [](pc = "select" /\ timeout = NoTimeout =>
             handlers = <<>> /\ timed_handlers = <<>> /\ ~stopping)

\* a tick whose earliest deadline lies beyond the longest allowed poll
C22_Witness ==
    /\ pc = "select"
    /\ timeout = MAX_SELECT_TIMEOUT
    /\ handlers = <<>>
    /\ timed_handlers # <<>>

\* ------------------------------------------------ sockets.py: Socket.recv
\* A Task running Socket.recv keeps, in its coro entry, the waiter Future,
\* whether the socket's fd is registered with the selector (registered) and
\* whether the socket has unread data (readable).

\* create_task(sock.recv(n))
CreateRecvTask ==
    /\ InMain
    /\ NumTasks < MaxTasks
    /\ Room(1)
    /\ LET t == Len(futs) + 1
           S == [St EXCEPT !.futs = Append(@, Future(TRUE, "Task is cancelled"))]
       IN Commit(call_soon(S, "step", t, 0))
    /\ coro' = Append(coro, [st |-> "created", sends |-> 0, kind |-> "recv",
                             waiter |-> 0, registered |-> FALSE,
                             readable |-> FALSE])
    /\ UNCHANGED <<loopvars, now, ran>>

RecvTasks ==
    {t \in DOMAIN coro : "kind" \in DOMAIN coro[t] /\ coro[t].kind = "recv"}

\* the peer's data reaches the socket: its fd is readable until it is read
DataArrives ==
    /\ \E t \in RecvTasks :
          /\ ~coro[t].readable
          /\ coro[t].st # "closed"
          /\ coro' = [coro EXCEPT ![t].readable = TRUE]
    /\ UNCHANGED <<hs, handlers, timed_handlers, wake, futs, fresh, coheap,
                   loopvars, now, ran>>

\* the continuation recv registers with the selector
SockDone(t) == [fn |-> "sock_done", arg |-> t]

\* recv, from its first statement to `await waiter`
CoroRecvStart ==
    /\ pc = "coro"
    /\ coro[current_task].kind = "recv"
    /\ coro[current_task].sends = 1
    /\ LET t == current_task
           w == Len(futs) + 1
       IN /\ Commit(add_done_callback(NewWaiter(St), w, StepCb(t)))
          /\ coro' = Append([coro EXCEPT ![t].st = "suspended",
                                         ![t].waiter = w,
                                         ![t].registered = TRUE],
                            [st |-> "waiter", sends |-> 0])
    /\ now' = now
    /\ ComboExit

\* recv, resumed at `await waiter`: unregister, socket_recv, `return data`
CoroRecvResume ==
    /\ pc = "coro"
    /\ coro[current_task].kind = "recv"
    /\ coro[current_task].sends > 1
    /\ LET t == current_task
           r == result(futs[coro[t].waiter])
       IN /\ IF "returns" \in DOMAIN r
             THEN Commit(Future_set_result(St, t, TrueV))
             ELSE Commit(step_except(St, t, r.raises))
          /\ coro' = [coro EXCEPT ![t].st = "closed",
                                  ![t].registered = FALSE,
                                  ![t].readable =
                                      IF "returns" \in DOMAIN r
                                      THEN FALSE ELSE @]
    /\ now' = now
    /\ ComboExit

\* the registered sockets select() reports: level-triggered readiness
ReadySocks == {t \in RecvTasks : coro[t].registered /\ coro[t].readable}

RECURSIVE sock_events(_)
sock_events(ts) ==
    IF ts = {} THEN <<>>
    ELSE LET t == CHOOSE x \in ts : \A y \in ts : x <= y
         IN <<SockDone(t)>> \o sock_events(ts \ {t})

\* selector.select(timeout) with sockets registered, then _process_events:
\* one call_soon per event, the wake channel's event before or after those
\* of the sockets
SelectIO ==
    /\ pc = "select"
    /\ IF wake > 0 \/ timeout = 0 \/ ReadySocks # {}
       THEN now' = now
       ELSE /\ timeout # NoTimeout
            /\ selStart + timeout <= MaxTime
            /\ now' = Max(now, selStart + timeout)
    /\ Room(Cardinality(ReadySocks) + (IF wake > 0 THEN 1 ELSE 0))
    /\ \E wakeFirst \in BOOLEAN :
          LET S0 == [St EXCEPT !.fresh = {}]
              wk == IF wake > 0 THEN <<[fn |-> "read_self", arg |-> 0]>>
                    ELSE <<>>
              evs == IF wakeFirst THEN wk \o sock_events(ReadySocks)
                     ELSE sock_events(ReadySocks) \o wk
          IN Commit([call_soon_each(S0, evs, 0) EXCEPT !.fresh = {}])
    /\ timeout' = NoTimeout
    /\ selStart' = 0
    /\ pc' = "promote"
    /\ UNCHANGED <<stopping, closed, todo, cur, running_loop,
                   current_task, coro, ran>>
    /\ UNCHANGED <<lastexc, thr>>

\* Tasks receiving from sockets, next to plain callbacks
NextSock ==
    \/ CallSoon
    \/ CreateRecvTask
    \/ DataArrives
    \/ RunForever
    \/ ComputeTimeout
    \/ SelectIO
    \/ Promote
    \/ Snapshot
    \/ RunHandle
    \/ CbReturn
    \/ ExecDone
    \/ CoroRecvStart
    \/ CoroRecvResume

SpecSock == Init /\ [][NextSock]_vars

\* the readiness handles ever enqueued for the registration of Task t
ReadinessHandles(t) ==
    {h \in DOMAIN hs : hs[h].fn = "sock_done" /\ hs[h].arg = t}

\* C24 as stated: for each recv the readiness continuation is enqueued at
\* most once, and no readiness handle is enqueued once the waiter Future of
\* the operation is resolved.
C24_ReadinessOneShot ==
    /\ [](\A t \in RecvTasks : Cardinality(ReadinessHandles(t)) <= 1)
    /\ [][\A t \in RecvTasks :
             (coro[t].waiter # 0 /\ done(futs[coro[t].waiter])) =>
                 ReadinessHandles(t)' = ReadinessHandles(t)]_vars

\* C23 as stated: a callback runs only while the reactor is installed as
\* the running reactor of the thread.
C23_RunningLoopInstalled ==
    pc \in {"cb", "coro"} => running_loop

====
